---- MODULE Spec2Model ----
(***************************************************************************)
(* A model of the go-klaviyo client SDK: the Person attribute engine       *)
(* (GetMap / MarshalJSON / UnmarshalJSON / ParseBool /                     *)
(* HasProfileIdentifier), APIError and the request pipeline of Client.     *)
(*                                                                         *)
(* Go strings are TLA+ strings; s[0] is SubSeq(s, 1, 1).                   *)
(* Go values of type interface{} are records tagged with their dynamic     *)
(* type (field t); JSON documents are records tagged with their JSON kind  *)
(* (field j).  A nil map and an empty map are both the empty function.     *)
(***************************************************************************)
EXTENDS Integers, Sequences, FiniteSets, TLC

\* ------------------------------------------------------------------------
\* Bounds of the model
\* ------------------------------------------------------------------------

\* how many entries the Attributes of an input Person have
MaxAttrs == 1
\* how many keys an incoming payload has
MaxKeys == 2

\* ------------------------------------------------------------------------
\* Go values (dynamic type + value) and JSON values
\* ------------------------------------------------------------------------

\* (the value field is named after the type, so that values of different
\* types are different records and are never compared field by field)
Nil == [t |-> "nil"]
GoBool(b) == [t |-> "bool", b |-> b]
GoString(s) == [t |-> "string", s |-> s]
GoInt(n) == [t |-> "int", n |-> n]
GoFloat64(n) == [t |-> "float64", n |-> n]
\* a []string; the nil slice and the empty slice are different values
NilStrings == [t |-> "[]string", isnil |-> TRUE, xs |-> <<>>]
GoStrings(xs) == [t |-> "[]string", isnil |-> FALSE, xs |-> xs]
\* a []interface{} and a map[string]interface{}, as json decodes them
GoSlice(xs) == [t |-> "[]interface {}", elems |-> xs]
GoMap(m) == [t |-> "map[string]interface {}", m |-> m]

JNull == [j |-> "null"]
JBool(b) == [j |-> "bool", b |-> b]
JNumber(n) == [j |-> "number", n |-> n]
JString(s) == [j |-> "string", s |-> s]
JArray(xs) == [j |-> "array", elems |-> xs]
JObject(m) == [j |-> "object", m |-> m]

EmptyMap == [k \in {} |-> Nil]

\* JSON text as a decoder reads it: an object, null, another JSON value, or
\* bytes that are no JSON
Document(m) == [kind |-> "object", obj |-> m]
NullDocument == [kind |-> "null"]
ScalarDocument(x) == [kind |-> "scalar", val |-> x]
Malformed == [kind |-> "malformed"]

\* ------------------------------------------------------------------------
\* strings
\* ------------------------------------------------------------------------

\* stands for a byte that is no valid UTF-8 (0xFF), and for U+FFFD
InvalidByte == "~"
RuneError == "?"

\* encoding/json writes a string with every invalid byte replaced by U+FFFD
RECURSIVE CoerceUTF8(_)
CoerceUTF8(s) ==
  IF Len(s) = 0 THEN ""
  ELSE (IF Head(s) = InvalidByte THEN RuneError ELSE Head(s)) \o CoerceUTF8(Tail(s))

IsSpace(c) == c \in {" ", "\t", "\n", "\r"}

RECURSIVE TrimLeft(_)
TrimLeft(s) ==
  IF Len(s) = 0 THEN ""
  ELSE IF IsSpace(Head(s)) THEN TrimLeft(Tail(s)) ELSE s

RECURSIVE TrimRight(_)
TrimRight(s) ==
  IF Len(s) = 0 THEN ""
  ELSE IF IsSpace(SubSeq(s, Len(s), Len(s))) THEN TrimRight(SubSeq(s, 1, Len(s) - 1)) ELSE s

\* strings.TrimSpace
TrimSpace(s) == TrimRight(TrimLeft(s))

UpperCase == <<"A", "B", "C", "D", "E", "F", "G", "H", "I", "J", "K", "L", "M",
               "N", "O", "P", "Q", "R", "S", "T", "U", "V", "W", "X", "Y", "Z">>
LowerCase == <<"a", "b", "c", "d", "e", "f", "g", "h", "i", "j", "k", "l", "m",
               "n", "o", "p", "q", "r", "s", "t", "u", "v", "w", "x", "y", "z">>

ToLowerChar(c) ==
  IF \E i \in 1..26 : UpperCase[i] = c
  THEN LowerCase[CHOOSE i \in 1..26 : UpperCase[i] = c]
  ELSE c

RECURSIVE ToLower(_)
ToLower(s) == IF Len(s) = 0 THEN "" ELSE ToLowerChar(Head(s)) \o ToLower(Tail(s))

\* encoding/json matches an object key to a struct field name ignoring case
EqualFold(a, b) == ToLower(a) = ToLower(b)

\* ------------------------------------------------------------------------
\* encoding/json
\* ------------------------------------------------------------------------

\* json.Marshal of one value held in a map[string]interface{}
RECURSIVE MarshalValue(_)
MarshalValue(x) ==
  CASE x.t = "nil" -> JNull
    [] x.t = "bool" -> JBool(x.b)
    [] x.t = "string" -> JString(CoerceUTF8(x.s))
    [] x.t = "int" -> JNumber(x.n)
    [] x.t = "float64" -> JNumber(x.n)
    [] x.t = "[]string" ->
         IF x.isnil THEN JNull
         ELSE JArray([i \in 1..Len(x.xs) |-> JString(CoerceUTF8(x.xs[i]))])
    [] x.t = "[]interface {}" ->
         JArray([i \in 1..Len(x.elems) |-> MarshalValue(x.elems[i])])
    [] x.t = "map[string]interface {}" ->
         JObject([k \in DOMAIN x.m |-> MarshalValue(x.m[k])])

\* json.Marshal of a map[string]interface{}
Marshal(m) == Document([k \in DOMAIN m |-> MarshalValue(m[k])])

\* json.Unmarshal of one value into an interface{}: every number is a float64
RECURSIVE UnmarshalValue(_)
UnmarshalValue(x) ==
  CASE x.j = "null" -> Nil
    [] x.j = "bool" -> GoBool(x.b)
    [] x.j = "number" -> GoFloat64(x.n)
    [] x.j = "string" -> GoString(x.s)
    [] x.j = "array" ->
         GoSlice([i \in 1..Len(x.elems) |-> UnmarshalValue(x.elems[i])])
    [] x.j = "object" -> GoMap([k \in DOMAIN x.m |-> UnmarshalValue(x.m[k])])

\* ------------------------------------------------------------------------
\* Object, Person
\* ------------------------------------------------------------------------

\* the fields of struct Object, in declaration order, with their json tags
ObjectType ==
  << [name |-> "Id", tag |-> "id", kind |-> "string"],
     [name |-> "Object", tag |-> "object", kind |-> "string"] >>

\* the fields of struct Person, in declaration order, with their json tags;
\* the embedded Object and Attributes carry no tag
PersonType ==
  << [name |-> "Object", tag |-> "", kind |-> "struct"],
     [name |-> "CustomId", tag |-> "$id", kind |-> "string"],
     [name |-> "Address1", tag |-> "$address1", kind |-> "string"],
     [name |-> "Address2", tag |-> "$address2", kind |-> "string"],
     [name |-> "City", tag |-> "$city", kind |-> "string"],
     [name |-> "Consent", tag |-> "$consent", kind |-> "[]string"],
     [name |-> "Country", tag |-> "$country", kind |-> "string"],
     [name |-> "Email", tag |-> "$email", kind |-> "string"],
     [name |-> "FirstName", tag |-> "$first_name", kind |-> "string"],
     [name |-> "Image", tag |-> "$image", kind |-> "string"],
     [name |-> "LastName", tag |-> "$last_name", kind |-> "string"],
     [name |-> "Latitude", tag |-> "$latitude", kind |-> "string"],
     [name |-> "Longitude", tag |-> "$longitude", kind |-> "string"],
     [name |-> "Organization", tag |-> "$organization", kind |-> "string"],
     [name |-> "PhoneNumber", tag |-> "$phone_number", kind |-> "string"],
     [name |-> "Region", tag |-> "$region", kind |-> "string"],
     [name |-> "Source", tag |-> "$source", kind |-> "string"],
     [name |-> "Timezone", tag |-> "$timezone", kind |-> "string"],
     [name |-> "Title", tag |-> "$title", kind |-> "string"],
     [name |-> "Zip", tag |-> "$zip", kind |-> "string"],
     [name |-> "Attributes", tag |-> "", kind |-> "map"] >>

ZeroObject == [Id |-> "", Object |-> ""]

ZeroOf(kind) ==
  CASE kind = "string" -> ""
    [] kind = "[]string" -> NilStrings
    [] kind = "map" -> EmptyMap
    [] kind = "struct" -> ZeroObject

\* var p Person
ZeroPerson ==
  [n \in {PersonType[i].name : i \in 1..Len(PersonType)} |->
     ZeroOf((CHOOSE f \in {PersonType[i] : i \in 1..Len(PersonType)} : f.name = n).kind)]

\* reflect's Value.Interface() of a field that is not a struct
Interface(v, kind) ==
  CASE kind = "string" -> GoString(v)
    [] kind = "[]string" -> v
    [] kind = "map" -> GoMap(v)

\* structToMap(item): the loop over the fields of the struct type T; a field
\* whose json tag is empty or "-" is skipped, a tagged field of struct kind is
\* converted by a nested call, any other tagged field is stored as it is
RECURSIVE structToMap(_, _)
structToMap(item, T) ==
  LET tagged == {i \in 1..Len(T) : T[i].tag # "" /\ T[i].tag # "-"}
      last(tag) == CHOOSE i \in tagged :
                     /\ T[i].tag = tag
                     /\ \A j \in tagged : T[j].tag = tag => j <= i
  IN [tag \in {T[i].tag : i \in tagged} |->
        IF T[last(tag)].kind = "struct"
        THEN GoMap(structToMap(item[T[last(tag)].name], ObjectType))
        ELSE Interface(item[T[last(tag)].name], T[last(tag)].kind)]

\* GetMap with its two loops exchanged: the attributes over the struct's entries
GetMap_AttributesLast(p) ==
  LET s == structToMap(p, PersonType)
  IN [k \in DOMAIN p.Attributes \cup DOMAIN s |->
        IF k \in DOMAIN p.Attributes THEN p.Attributes[k] ELSE s[k]]

\* Person.GetMap: the attributes first, then the struct's entries over them
GetMap(p) ==
  LET s == structToMap(p, PersonType)
  IN [k \in DOMAIN p.Attributes \cup DOMAIN s |->
        IF k \in DOMAIN s THEN s[k] ELSE p.Attributes[k]]

\* Person.MarshalJSON
MarshalJSON(p) == Marshal(GetMap(p))

\* ParseBool that also takes every bool-looking number for true
ParseBool_Loose(a, k) ==
  IF k \notin DOMAIN a THEN FALSE
  ELSE CASE a[k].t = "string" -> a[k].s = "true" \/ a[k].s = "1"
         [] a[k].t = "bool" -> a[k].b
         [] a[k].t \in {"int", "float64"} -> a[k].n = 1
         [] OTHER -> FALSE

\* Attributes.ParseBool
ParseBool(a, k) ==
  IF k \notin DOMAIN a THEN FALSE
  ELSE CASE a[k].t = "string" -> a[k].s = "true" \/ a[k].s = "1"
         [] a[k].t = "bool" -> a[k].b
         [] OTHER -> FALSE

\* HasProfileIdentifier without the TrimSpace
HasProfileIdentifier_Untrimmed(p) == ~(p.Email = "" /\ p.PhoneNumber = "")

\* Person.HasProfileIdentifier
HasProfileIdentifier(p) ==
  ~(TrimSpace(p.Email) = "" /\ TrimSpace(p.PhoneNumber) = "")

\* APIError.Error with Detail before Message
Error_DetailFirst(e) ==
  IF e.Detail # "" THEN e.Detail
  ELSE IF e.Message # "" THEN e.Message
  ELSE e.Raw

\* APIError.Error
Error(e) ==
  IF e.Message # "" THEN e.Message
  ELSE IF e.Detail # "" THEN e.Detail
  ELSE e.Raw

\* ------------------------------------------------------------------------
\* Person.UnmarshalJSON
\* ------------------------------------------------------------------------

\* the fields encoding/json sees in Person2: the fields of the embedded Object
\* are promoted, an untagged field goes by its Go name; fold is the name
\* with its case folded
JSONFields ==
  {[json |-> ObjectType[i].tag, fold |-> ToLower(ObjectType[i].tag),
    path |-> <<"Object", ObjectType[i].name>>,
    kind |-> ObjectType[i].kind] : i \in 1..Len(ObjectType)}
  \cup
  {[json |-> IF PersonType[i].tag = "" THEN PersonType[i].name ELSE PersonType[i].tag,
    fold |-> ToLower(IF PersonType[i].tag = "" THEN PersonType[i].name ELSE PersonType[i].tag),
    path |-> <<PersonType[i].name>>,
    kind |-> PersonType[i].kind] : i \in {n \in 1..Len(PersonType) : PersonType[n].kind # "struct"}}

\* the fields of the struct fields F an object key is decoded into: the field
\* of exactly that name, or else a field whose name equals the key ignoring case
MatchingFields(F, k) ==
  IF \E f \in F : f.json = k
  THEN {f \in F : f.json = k}
  ELSE LET folded == ToLower(k) IN {f \in F : f.fold = folded}

FieldsOfKey(k) == MatchingFields(JSONFields, k)

\* can the JSON value x be stored in a field of this kind (null always can)
Assignable(x, kind) ==
  \/ x.j = "null"
  \/ kind = "string" /\ x.j = "string"
  \/ kind = "[]string" /\ x.j = "array"
       /\ \A i \in 1..Len(x.elems) : x.elems[i].j \in {"string", "null"}
  \/ kind = "map" /\ x.j = "object"

\* the key whose value a field ends up with: the last one written.  Keys that
\* differ only in case are taken in the order json.Marshal writes them
\* (sorted by bytes: the lower-case tag after its variants).
LastKey(ks, f) == IF f.json \in ks THEN f.json ELSE CHOOSE k \in ks : TRUE

\* the value of field f after decoding the object doc into a zero Person2;
\* ks are the keys of doc that are decoded into f
FieldValue(doc, ks, f) ==
  LET strs == {k \in ks : doc[k].j = "string"}
      x == doc[LastKey(ks, f)]
  IN CASE f.kind = "string" ->
            \* null leaves a string as it is
            IF strs = {} THEN "" ELSE doc[LastKey(strs, f)].s
       [] f.kind = "[]string" ->
            IF ks = {} \/ x.j = "null" THEN NilStrings
            ELSE GoStrings([i \in 1..Len(x.elems) |->
                              IF x.elems[i].j = "string" THEN x.elems[i].s ELSE ""])
       [] f.kind = "map" ->
            IF ks = {} \/ x.j = "null" THEN EmptyMap
            ELSE [k \in DOMAIN x.m |-> UnmarshalValue(x.m[k])]

\* decoding the object doc into a struct of fields F: is a value of the wrong type
TypeMismatch(F, doc) ==
  \E k \in DOMAIN doc : \E f \in MatchingFields(F, k) : ~Assignable(doc[k], f.kind)

\* json.Unmarshal(data, &p2): does it report a value of the wrong type
TypeError(doc) == TypeMismatch(JSONFields, doc)

\* json.Unmarshal(data, &p2), when it succeeds
Person2(doc) ==
  LET fields == [k \in DOMAIN doc |-> FieldsOfKey(k)]
      field(path) ==
        LET f == CHOOSE g \in JSONFields : g.path = path
        IN FieldValue(doc, {k \in DOMAIN doc : f \in fields[k]}, f)
  IN [n \in DOMAIN ZeroPerson |->
        IF n = "Object"
        THEN [g \in DOMAIN ZeroObject |-> field(<<"Object", g>>)]
        ELSE field(<<n>>)]

NoErr == [type |-> "nil"]
SyntaxError == [type |-> "*json.SyntaxError"]
UnmarshalTypeError == [type |-> "*json.UnmarshalTypeError"]

\* the keys left in m when only the known tags are deleted
KeptKeys_KnownOnly(m) ==
  DOMAIN m \ ({"id", "object"} \cup {PersonType[i].tag : i \in 1..Len(PersonType)})

\* the keys UnmarshalJSON leaves in m: not "id", not "object", and not
\* starting with '$' (the empty key is kept)
KeptKeys(m) ==
  {k \in DOMAIN m \ {"id", "object"} : Len(k) <= 0 \/ SubSeq(k, 1, 1) # "$"}

\* UnmarshalJSON without the assignment *p = Person(p2)
UnmarshalJSON_KeepsFields(p, d) ==
  IF d.kind = "malformed" THEN [err |-> SyntaxError, p |-> p]
  ELSE IF d.kind = "scalar" THEN [err |-> UnmarshalTypeError, p |-> p]
  ELSE IF d.kind = "null" THEN [err |-> NoErr, p |-> ZeroPerson]
  ELSE IF TypeError(d.obj) THEN [err |-> UnmarshalTypeError, p |-> p]
  ELSE LET m == [k \in DOMAIN d.obj |-> UnmarshalValue(d.obj[k])]
       IN [err |-> NoErr, p |-> [p EXCEPT !.Attributes = [k \in KeptKeys(m) |-> m[k]]]]

\* Person.UnmarshalJSON: the error returned and the Person *p afterwards
UnmarshalJSON(p, d) ==
  IF d.kind = "malformed" THEN [err |-> SyntaxError, p |-> p]
  ELSE IF d.kind = "scalar" THEN [err |-> UnmarshalTypeError, p |-> p]
  \* null: m and p2 stay empty, and both are assigned
  ELSE IF d.kind = "null" THEN [err |-> NoErr, p |-> ZeroPerson]
  ELSE IF TypeError(d.obj) THEN [err |-> UnmarshalTypeError, p |-> p]
  ELSE LET m == [k \in DOMAIN d.obj |-> UnmarshalValue(d.obj[k])]
       IN [err |-> NoErr,
           p |-> [Person2(d.obj) EXCEPT !.Attributes = [k \in KeptKeys(m) |-> m[k]]]]

\* ------------------------------------------------------------------------
\* Client: requests, replies, the request pipeline
\* ------------------------------------------------------------------------

ContentNone == ""
ContentHTML == "text/html"
ContentHTMLUTF8 == "text/html; charset=utf-8"
ContentJSON == "application/json"

Endpoint == "https://a.klaviyo.com/api"
EndpointV1 == "https://a.klaviyo.com/api/v1"
EndpointV2 == "https://a.klaviyo.com/api/v2"

\* http.StatusOK
StatusOK == 200

ErrorString(text) == [type |-> "*errors.errorString", text |-> text]
ErrNoPublicKey == ErrorString("missing public key")
ErrNoPrivateKey == ErrorString("missing private key")
ErrNoProfileIdentifier ==
  ErrorString("there is no unique profile identifier, must have email or phone number")
ErrFailed == ErrorString("request successful, call failed")
ErrInvalidOutArg == ErrorString("out arg provided does not match datatype of response")

\* the error of client.Do, and the error of io.ReadAll
TransportError == [type |-> "*url.Error"]
ReadError == [type |-> "read error"]

BadResponseError(body, jsonErr) ==
  [type |-> "*BadResponseError", Body |-> body, JSONError |-> jsonErr]

\* the response body: its bytes, and what a JSON decoder reads in them
Body(text, doc) == [text |-> text, doc |-> doc]

\* what client.Do and io.ReadAll make of a request
NoReply == [kind |-> "none"]
DoFails == [kind |-> "fail"]
ReadFails(status, ctype) == [kind |-> "readfail", status |-> status, ctype |-> ctype]
Response(status, ctype, body) ==
  [kind |-> "response", status |-> status, ctype |-> ctype, body |-> body]

\* the out argument of doReq
NilOut == [type |-> "nil"]
StringOut(x) == [type |-> "*string", str |-> x]
PersonOut(p) == [type |-> "*Person", person |-> p]
ListOut(xs) == [type |-> "*[]ListPerson", list |-> xs]

\* path.Join of a clean path and a uri with no empty or dot element: the two
\* joined by a slash, the uri's trailing slash dropped
Clean(uri) ==
  IF Len(uri) > 0 /\ SubSeq(uri, Len(uri), Len(uri)) = "/"
  THEN SubSeq(uri, 1, Len(uri) - 1) ELSE uri

\* newEndpoint: the endpoint with uri joined to its path, and no query
newEndpoint(endpoint, uri) ==
  [path |-> IF Clean(uri) = "" THEN endpoint ELSE endpoint \o "/" \o Clean(uri),
   query |-> EmptyMap]

\* url.Values.Add
Add(values, k, v) ==
  [x \in DOMAIN values \cup {k} |->
     IF x # k THEN values[x]
     ELSE IF k \in DOMAIN values THEN Append(values[k], v) ELSE <<v>>]

NoBody == [kind |-> "none"]

\* http.NewRequest and the headers send and sendJSON add
Request(method, url, accept, ctype, body) ==
  [method |-> method, url |-> url, accept |-> accept, ctype |-> ctype, body |-> body]

\* the fields encoding/json sees in APIError and in ListPerson
APIErrorFields ==
  {[json |-> "Raw", fold |-> "raw", name |-> "Raw", kind |-> "string"],
   [json |-> "detail", fold |-> "detail", name |-> "Detail", kind |-> "string"],
   [json |-> "message", fold |-> "message", name |-> "Message", kind |-> "string"]}

ListPersonFields ==
  {[json |-> "id", fold |-> "id", name |-> "Id", kind |-> "string"],
   [json |-> "email", fold |-> "email", name |-> "Email", kind |-> "string"],
   [json |-> "phone_number", fold |-> "phone_number", name |-> "PhoneNumber", kind |-> "string"],
   [json |-> "created", fold |-> "created", name |-> "Created", kind |-> "string"]}

\* the struct of fields F after decoding the object doc into its zero value
StructOf(F, doc) ==
  [n \in {f.name : f \in F} |->
     LET f == CHOOSE g \in F : g.name = n
     IN FieldValue(doc, {k \in DOMAIN doc : f \in MatchingFields(F, k)}, f)]

APIError(raw, detail, message) ==
  [type |-> "*APIError", Raw |-> raw, Detail |-> detail, Message |-> message]

\* json.NewDecoder(...).Decode(&err) into a zero APIError
DecodeAPIError(doc) ==
  CASE doc.kind = "malformed" -> [err |-> SyntaxError, val |-> APIError("", "", "")]
    [] doc.kind = "scalar" -> [err |-> UnmarshalTypeError, val |-> APIError("", "", "")]
    [] doc.kind = "null" -> [err |-> NoErr, val |-> APIError("", "", "")]
    [] doc.kind = "object" ->
         LET e == StructOf(APIErrorFields, doc.obj)
         IN [err |-> IF TypeMismatch(APIErrorFields, doc.obj) THEN UnmarshalTypeError ELSE NoErr,
             val |-> APIError(e.Raw, e.Detail, e.Message)]

ZeroListPerson == [Id |-> "", Email |-> "", PhoneNumber |-> "", Created |-> ""]

\* json.NewDecoder(...).Decode(out) for the out arguments the client passes
Decode(out, doc) ==
  IF doc.kind = "malformed" THEN [err |-> SyntaxError, out |-> out]
  ELSE CASE out.type = "*string" ->
              IF doc.kind = "null" THEN [err |-> NoErr, out |-> out]
              ELSE IF doc.kind = "scalar" /\ doc.val.j = "string"
                   THEN [err |-> NoErr, out |-> StringOut(doc.val.s)]
                   ELSE [err |-> UnmarshalTypeError, out |-> out]
         [] out.type = "*Person" ->
              LET r == UnmarshalJSON(out.person, doc)
              IN [err |-> r.err, out |-> PersonOut(r.p)]
         [] out.type = "*[]ListPerson" ->
              IF doc.kind = "null" THEN [err |-> NoErr, out |-> ListOut(<<>>)]
              ELSE IF doc.kind = "scalar" /\ doc.val.j = "array"
                   THEN LET xs == doc.val.elems
                        IN [err |-> IF \E i \in 1..Len(xs) :
                                         \/ xs[i].j \notin {"object", "null"}
                                         \/ xs[i].j = "object"
                                              /\ TypeMismatch(ListPersonFields, xs[i].m)
                                    THEN UnmarshalTypeError ELSE NoErr,
                            out |-> ListOut([i \in 1..Len(xs) |->
                                       IF xs[i].j = "object"
                                       THEN StructOf(ListPersonFields, xs[i].m)
                                       ELSE ZeroListPerson])]
                   ELSE [err |-> UnmarshalTypeError, out |-> out]

\* Client.doReq once the private key is known to be set: the key is added to
\* the query, the request is sent and the reply is classified
exchange(c, r, out, reply) ==
  LET req == [r EXCEPT !.url.query = Add(r.url.query, "api_key", c.PrivateKey)]
      result(e, o) == [err |-> e, out |-> o, sent |-> <<req>>]
  IN IF reply.kind = "fail" THEN result(TransportError, out)
     ELSE IF reply.kind = "readfail" THEN result(ReadError, out)
     ELSE IF reply.status # StatusOK THEN
       IF reply.ctype # ContentJSON
       THEN result(APIError(reply.body.text, "", reply.body.text), out)
       ELSE LET d == DecodeAPIError(reply.body.doc)
            IN IF d.err.type # "nil"
               THEN result(BadResponseError(reply.body.text, d.err), out)
               ELSE result([d.val EXCEPT !.Raw = reply.body.text], out)
     ELSE IF out.type # "nil" THEN
       CASE reply.ctype = ContentJSON ->
              LET d == Decode(out, reply.body.doc) IN result(d.err, d.out)
         [] reply.ctype \in {ContentHTML, ContentHTMLUTF8} ->
              IF out.type # "*string" THEN result(ErrInvalidOutArg, out)
              ELSE result(NoErr, StringOut(reply.body.text))
         [] OTHER -> result(NoErr, out)
     ELSE result(NoErr, out)

\* doReq without the test of the private key
doReq_NoKeyCheck(c, r, out, reply) == exchange(c, r, out, reply)

\* Client.doReq: the error returned, the out argument afterwards, and the
\* requests handed to client.Do
doReq(c, r, out, reply) ==
  IF c.PrivateKey = "" THEN [err |-> ErrNoPrivateKey, out |-> out, sent |-> <<>>]
  ELSE exchange(c, r, out, reply)

\* Client.send
send(c, method, accept, url, out, reply) ==
  doReq(c, Request(method, url, <<accept>>, ContentNone, NoBody), out, reply)

\* Client.sendJSON: in is the JSON json.Marshal makes of the value sent
sendJSON(c, method, accept, url, in, out, reply) ==
  doReq(c, Request(method, url, IF accept # ContentNone THEN <<accept>> ELSE <<>>,
                   ContentJSON, in), out, reply)

\* ------------------------------------------------------------------------
\* Client: the calls
\* ------------------------------------------------------------------------

\* trimEmptyValues: the entries that are neither nil nor the empty string
trimEmptyValues(m) ==
  [k \in {x \in DOMAIN m : ~(m[x].t = "nil" \/ (m[x].t = "string" /\ m[x].s = ""))} |-> m[k]]

\* base64.StdEncoding.EncodeToString of an encoded payload
Base64(doc) == [base64 |-> doc]

\* strings.Join
RECURSIVE Join(_, _)
Join(xs, sep) ==
  IF Len(xs) = 0 THEN ""
  ELSE IF Len(xs) = 1 THEN xs[1]
  ELSE xs[1] \o sep \o Join(Tail(xs), sep)

\* strconv.Itoa of a number that is not negative
RECURSIVE Itoa(_)
Itoa(n) ==
  IF n < 10 THEN SubSeq("0123456789", n + 1, n + 1)
  ELSE Itoa(n \div 10) \o SubSeq("0123456789", (n % 10) + 1, (n % 10) + 1)

\* fmt.Sprintf("%v", v) of a value GetMap returns
Sprint(x) ==
  CASE x.t = "nil" -> "<nil>"
    [] x.t = "bool" -> IF x.b THEN "true" ELSE "false"
    [] x.t = "string" -> x.s
    [] x.t = "int" -> Itoa(x.n)
    [] x.t = "float64" -> Itoa(x.n)
    [] x.t = "[]string" -> "[" \o Join(x.xs, " ") \o "]"

\* the same exchange without the comparison of the answer to "1"
identify_AnyAnswer(c, p, omit, reply) ==
  LET props == IF omit THEN trimEmptyValues(GetMap(p)) ELSE GetMap(p)
      payload == Document([k \in {"token", "properties"} |->
                    IF k = "token" THEN JString(CoerceUTF8(c.PublicKey))
                    ELSE JObject(Marshal(props).obj)])
      u == [newEndpoint(Endpoint, "identify") EXCEPT
              !.query = Add(EmptyMap, "data", Base64(payload))]
  IN send(c, "GET", ContentHTML, u, StringOut(""), reply)

\* Client.IdentifySafe once the Person is known to be usable: the payload is
\* built and sent, and the answer compared to "1"
identify(c, p, omit, reply) ==
  LET props == IF omit THEN trimEmptyValues(GetMap(p)) ELSE GetMap(p)
      payload == Document([k \in {"token", "properties"} |->
                    IF k = "token" THEN JString(CoerceUTF8(c.PublicKey))
                    ELSE JObject(Marshal(props).obj)])
      u == [newEndpoint(Endpoint, "identify") EXCEPT
              !.query = Add(EmptyMap, "data", Base64(payload))]
      r == send(c, "GET", ContentHTML, u, StringOut(""), reply)
  IN IF r.err.type # "nil" THEN r
     ELSE IF r.out.str # "1" THEN [r EXCEPT !.err = ErrFailed]
     ELSE r

\* IdentifySafe without the test of the profile identifier
IdentifySafe_NoIdentifierCheck(c, p, omit, reply) ==
  IF c.PublicKey = "" THEN [err |-> ErrNoPublicKey, out |-> StringOut(""), sent |-> <<>>]
  ELSE identify(c, p, omit, reply)

\* Client.IdentifySafe: the error returned, the local res, the requests sent
IdentifySafe(c, p, omit, reply) ==
  IF c.PublicKey = "" THEN [err |-> ErrNoPublicKey, out |-> StringOut(""), sent |-> <<>>]
  ELSE IF ~HasProfileIdentifier(p)
  THEN [err |-> ErrNoProfileIdentifier, out |-> StringOut(""), sent |-> <<>>]
  ELSE identify(c, p, omit, reply)

\* Client.Identify
Identify(c, p, reply) == IdentifySafe(c, p, FALSE, reply)

\* Client.GetPerson: the error returned, &p, the requests sent
GetPerson(c, personId, reply) ==
  send(c, "GET", ContentJSON, newEndpoint(EndpointV1, "person/" \o personId),
       PersonOut(ZeroPerson), reply)

\* the query UpdatePerson builds: one value per entry of GetMap
RECURSIVE AddAll(_, _, _)
AddAll(values, m, ks) ==
  IF ks = {} THEN values
  ELSE LET k == CHOOSE x \in ks : TRUE
       IN AddAll(Add(values, k, Sprint(m[k])), m, ks \ {k})

\* Client.UpdatePerson: the response is decoded into the Person passed in
UpdatePerson(c, p, reply) ==
  LET m == GetMap(p)
      u == [newEndpoint(EndpointV1, "person/" \o p.Object.Id) EXCEPT
              !.query = AddAll(EmptyMap, m, DOMAIN m)]
  IN send(c, "PUT", ContentJSON, u, PersonOut(p), reply)

\* Client.Subscribe
Subscribe(c, listId, emails, phoneNumbers, reply) ==
  LET u == newEndpoint(EndpointV2, "list/" \o listId \o "/subscribe")
      profiles ==
        [i \in 1..Len(emails) |-> JObject([k \in {"email"} |-> JString(emails[i])])]
        \o [i \in 1..Len(phoneNumbers) |->
              JObject([k \in {"phone_number", "sms_consent"} |->
                 IF k = "phone_number" THEN JString(phoneNumbers[i]) ELSE JBool(TRUE)])]
  IN sendJSON(c, "POST", ContentJSON, u,
              Document([k \in {"profiles"} |-> JArray(profiles)]), ListOut(<<>>), reply)

\* Client.Unsubscribe
Unsubscribe(c, listId, emails, phoneNumbers, pushTokens, reply) ==
  LET u == newEndpoint(EndpointV2, "list/" \o listId \o "/subscribe")
      toc == [k \in {"emails", "phone_numbers", "push_tokens"} |->
                CASE k = "emails" -> emails
                  [] k = "phone_numbers" -> phoneNumbers
                  [] k = "push_tokens" -> pushTokens]
      m == [k \in {x \in DOMAIN toc : Len(toc[x]) > 0} |->
              JArray([i \in 1..Len(toc[k]) |-> JString(toc[k][i])])]
  IN sendJSON(c, "DELETE", ContentNone, u, Document(m), NilOut, reply)

\* InList without its tests of len: always a request, carrying the three lists
InList_AllLists(c, listId, emails, phoneNumbers, pushTokens, reply) ==
  LET u == newEndpoint(EndpointV2, "list/" \o listId \o "/members")
      v1 == Add(EmptyMap, "emails", Join(emails, ","))
      v2 == Add(v1, "phone_numbers", Join(phoneNumbers, ","))
      v3 == Add(v2, "push_tokens", Join(pushTokens, ","))
  IN send(c, "GET", ContentJSON, [u EXCEPT !.query = v3], ListOut(<<>>), reply)

\* Client.InList
InList(c, listId, emails, phoneNumbers, pushTokens, reply) ==
  LET u == newEndpoint(EndpointV2, "list/" \o listId \o "/members")
      v1 == IF Len(emails) > 0 THEN Add(EmptyMap, "emails", Join(emails, ",")) ELSE EmptyMap
      v2 == IF Len(phoneNumbers) > 0
            THEN Add(v1, "phone_numbers", Join(phoneNumbers, ",")) ELSE v1
      v3 == IF Len(pushTokens) > 0
            THEN Add(v2, "push_tokens", Join(pushTokens, ",")) ELSE v2
  IN IF Len(emails) = 0 /\ Len(phoneNumbers) = 0 /\ Len(pushTokens) = 0
     THEN [err |-> NoErr, out |-> ListOut(<<>>), sent |-> <<>>]
     ELSE send(c, "GET", ContentJSON, [u EXCEPT !.query = v3], ListOut(<<>>), reply)

\* ------------------------------------------------------------------------
\* State
\* ------------------------------------------------------------------------

VARIABLES
  person,   \* the Person the caller built: receiver of GetMap, MarshalJSON, ...
  target,   \* the Person a payload is decoded into: receiver of UnmarshalJSON
  prior,    \* the Person a call decodes into, as it was when the call was made
  data,     \* the payload: written by MarshalJSON, read by UnmarshalJSON
  flat,     \* the map the last GetMap returned
  key,      \* the key the last ParseBool was asked for
  ret,      \* the bool the last ParseBool or HasProfileIdentifier returned
  apiErr,   \* the APIError that Error() is called on
  msg,      \* the string the last Error() returned
  client,   \* the Client: PublicKey and PrivateKey
  args,     \* the other arguments of the last call of the Client
  sent,     \* the requests the last call handed to client.Do
  reply,    \* what came back for the request sent
  out,      \* the out argument of doReq after the last call
  err,      \* the error the last call returned
  op        \* the last call made

vars == <<person, target, prior, data, flat, key, ret, apiErr, msg,
          client, args, sent, reply, out, err, op>>

clientVars == <<client, args, sent, reply, out>>

NoData == [kind |-> "none"]

\* ------------------------------------------------------------------------
\* Inputs
\* ------------------------------------------------------------------------

StrInputs == {"Cat", "C~t"}
ConsentInputs == {GoStrings(<<>>), GoStrings(<<"email", "sms">>)}
AttrKeys == {"IsTest", "", "id", "Object", "attributes", "$email"}
AttrValues == {GoBool(TRUE), GoString("true"), GoString("C~t"), GoInt(1), GoFloat64(1)}

StringPaths == {f.path : f \in {g \in JSONFields : g.kind = "string"}}

SetPath(p, path, v) ==
  IF Len(path) = 1 THEN [p EXCEPT ![path[1]] = v]
  ELSE [p EXCEPT ![path[1]][path[2]] = v]

SetAttr(p, k, v) ==
  [p EXCEPT !.Attributes =
     [x \in DOMAIN p.Attributes \cup {k} |-> IF x = k THEN v ELSE p.Attributes[x]]]

\* newTestPerson: a Person with every field set
FullPerson ==
  [n \in DOMAIN ZeroPerson |->
     CASE n = "Object" -> [Id |-> "abc", Object |-> "Person"]
       [] n = "Consent" -> GoStrings(<<"email", "sms">>)
       [] n = "Attributes" -> EmptyMap
       [] OTHER -> n]

\* the fields of the Persons a caller builds: none set, one set, all set
FieldInputs ==
  {ZeroPerson, FullPerson}
  \cup {SetPath(ZeroPerson, path, v) : path \in StringPaths, v \in StrInputs}
  \cup {[ZeroPerson EXCEPT !.Consent = c] : c \in ConsentInputs}

\* the maps of at most n entries with keys in K and values in V
RECURSIVE MapsOfSize(_, _, _)
MapsOfSize(K, V, n) ==
  IF n = 0 THEN {EmptyMap}
  ELSE LET M == MapsOfSize(K, V, n - 1)
       IN M \cup {[x \in DOMAIN m \cup {k} |-> IF x = k THEN v ELSE m[x]] :
                    m \in M, k \in K, v \in V}

PersonInputs ==
  {[p EXCEPT !.Attributes = a] : p \in FieldInputs, a \in MapsOfSize(AttrKeys, AttrValues, MaxAttrs)}

PayloadKeys ==
  {"id", "object", "$email", "$consent", "$unknown", "IsTest", "LikesGold", "", "Attributes"}
PayloadValues ==
  {JNull, JBool(TRUE), JNumber(1), JString("true"),
   JArray(<<JString("email")>>), JArray(<<JNumber(1)>>)}

\* what the remote service may answer: a JSON object, or something else
PayloadInputs ==
  {Document(o) : o \in MapsOfSize(PayloadKeys, PayloadValues, MaxKeys)}
  \cup {Malformed, NullDocument, ScalarDocument(JString("1"))}

\* a Person before a decode: fresh, or holding an earlier answer
TargetInputs ==
  {ZeroPerson,
   SetAttr(SetPath(ZeroPerson, <<"Email">>, "kitty@monstercat.com"), "Old", GoBool(TRUE)),
   SetAttr(SetPath(ZeroPerson, <<"Object", "Id">>, "abc"), "IsTest", GoString("1"))}

\* ------------------------------------------------------------------------
\* Calls of the attribute engine
\* ------------------------------------------------------------------------

\* m := p.GetMap()
CallGetMap ==
  /\ op = "init"
  /\ data = NoData
  /\ flat' = GetMap(person)
  /\ err' = NoErr
  /\ op' = "GetMap"
  /\ UNCHANGED <<person, target, prior, data, key, ret, apiErr, msg>>
  /\ UNCHANGED clientVars

\* json.NewEncoder(buf).Encode(&a)
CallMarshalJSON ==
  /\ op = "init"
  /\ data = NoData
  /\ data' = MarshalJSON(person)
  /\ err' = NoErr
  /\ op' = "MarshalJSON"
  /\ UNCHANGED <<person, target, prior, flat, key, ret, apiErr, msg>>
  /\ UNCHANGED clientVars

\* json.NewDecoder(buf).Decode(&b)
CallUnmarshalJSON ==
  /\ op \in {"init", "MarshalJSON"}
  /\ data # NoData
  /\ LET r == UnmarshalJSON(target, data)
     IN /\ target' = r.p
        /\ err' = r.err
  /\ prior' = target
  /\ op' = "UnmarshalJSON"
  /\ UNCHANGED <<person, data, flat, key, ret, apiErr, msg>>
  /\ UNCHANGED clientVars

ZeroAPIError == APIError("", "", "")

\* the variables the attribute engine does not use
NoArgs == [none |-> TRUE]

\* no Client is used
NoClient ==
  /\ client = [PublicKey |-> "", PrivateKey |-> ""]
  /\ args = NoArgs
  /\ sent = <<>>
  /\ reply = NoReply
  /\ out = NilOut

\* the variables the attribute engine does not use
Unused ==
  /\ key = ""
  /\ ret = FALSE
  /\ apiErr = ZeroAPIError
  /\ msg = ""
  /\ NoClient

\* encode a Person, decode it again (TestPerson_JSON), or flatten it
Init ==
  /\ person \in PersonInputs
  /\ target = ZeroPerson
  /\ prior = ZeroPerson
  /\ data = NoData
  /\ flat = EmptyMap
  /\ Unused
  /\ err = NoErr
  /\ op = "init"

Next == CallGetMap \/ CallMarshalJSON \/ CallUnmarshalJSON

Spec == Init /\ [][Next]_vars

\* decode an answer of the remote service into a Person
InitSplit ==
  /\ person = ZeroPerson
  /\ target \in TargetInputs
  /\ prior = target
  /\ data \in PayloadInputs
  /\ flat = EmptyMap
  /\ Unused
  /\ err = NoErr
  /\ op = "init"

NextSplit == CallUnmarshalJSON

SpecSplit == InitSplit /\ [][NextSplit]_vars

\* ------------------------------------------------------------------------
\* Properties of the attribute engine
\* ------------------------------------------------------------------------

\* the reserved wire keys and the Person field each one carries
Reserved ==
  << <<"$id", "CustomId">>, <<"$address1", "Address1">>, <<"$address2", "Address2">>,
     <<"$city", "City">>, <<"$consent", "Consent">>, <<"$country", "Country">>,
     <<"$email", "Email">>, <<"$first_name", "FirstName">>, <<"$image", "Image">>,
     <<"$last_name", "LastName">>, <<"$latitude", "Latitude">>,
     <<"$longitude", "Longitude">>, <<"$organization", "Organization">>,
     <<"$phone_number", "PhoneNumber">>, <<"$region", "Region">>,
     <<"$source", "Source">>, <<"$timezone", "Timezone">>, <<"$title", "Title">>,
     <<"$zip", "Zip">> >>

HasSigil(k) == Len(k) > 0 /\ SubSeq(k, 1, 1) = "$"
ValidUTF8(s) == CoerceUTF8(s) = s

\* the value of a reserved field as an interface{}
ReservedValue(p, name) == IF name = "Consent" THEN p.Consent ELSE GoString(p[name])

SameReserved(x, y) == \A i \in 1..Len(Reserved) : x[Reserved[i][2]] = y[Reserved[i][2]]

NoSigilKeys(p) == \A k \in DOMAIN p.Attributes : ~HasSigil(k)

\* the Persons the round trip preserves: no attribute key starts with '$' or
\* is, ignoring case, the name of a field that is not reserved; every attribute
\* is a bool, a float64 or a string; every string is valid UTF-8
RoundTripDomain(p) ==
  /\ NoSigilKeys(p)
  /\ \A k \in DOMAIN p.Attributes :
       /\ ToLower(k) \notin {"id", "object", "attributes"}
       /\ p.Attributes[k].t \in {"bool", "float64", "string"}
       /\ p.Attributes[k].t = "string" => ValidUTF8(p.Attributes[k].s)
  /\ \A i \in 1..Len(Reserved) :
       IF Reserved[i][2] = "Consent"
       THEN \A n \in 1..Len(p.Consent.xs) : ValidUTF8(p.Consent.xs[n])
       ELSE ValidUTF8(p[Reserved[i][2]])

\* in Spec a decode always reads the payload MarshalJSON wrote for person
RoundTripped == op = "UnmarshalJSON" /\ data = MarshalJSON(person)

C2_FlattenHasIdAndObject ==
  op = "GetMap" =>
    /\ \A i \in 1..Len(Reserved) : Reserved[i][1] \in DOMAIN flat
    /\ "id" \in DOMAIN flat /\ flat["id"] = GoString(person.Object.Id)
    /\ "object" \in DOMAIN flat /\ flat["object"] = GoString(person.Object.Object)

\* C3: where an attribute key equals a reserved wire key, the map GetMap
\* returns holds the reserved field's value at that key
C3_SigilPrecedence ==
  op = "GetMap" =>
    \A i \in 1..Len(Reserved) :
      Reserved[i][1] \in DOMAIN person.Attributes =>
        /\ Reserved[i][1] \in DOMAIN flat
        /\ flat[Reserved[i][1]] = ReservedValue(person, Reserved[i][2])

\* GetMap has flattened a Person whose attribute "$email" differs from its Email
C3_Witness ==
  /\ op = "GetMap"
  /\ "$email" \in DOMAIN person.Attributes
  /\ person.Email # ""
  /\ person.Attributes["$email"] # GoString(person.Email)

\* C4: after a successful UnmarshalJSON of the object m, Attributes has exactly
\* the keys of m that are not "id", not "object" and do not start with '$',
\* each with the value m gives it, whatever Attributes held before
C4_SplitAttributes ==
  (op = "UnmarshalJSON" /\ err = NoErr /\ data.kind = "object") =>
    /\ DOMAIN target.Attributes =
         {k \in DOMAIN data.obj : k # "id" /\ k # "object" /\ ~HasSigil(k)}
    /\ \A k \in DOMAIN target.Attributes :
         MarshalValue(target.Attributes[k]) = data.obj[k]

\* a payload with an unknown '$' key and a custom key has been decoded into a
\* Person that held other attributes
C4_Witness ==
  /\ op = "UnmarshalJSON" /\ err = NoErr
  /\ data.kind = "object" /\ "$unknown" \in DOMAIN data.obj
  /\ "LikesGold" \in DOMAIN target.Attributes
  /\ "Old" \in DOMAIN prior.Attributes

\* ------------------------------------------------------------------------
\* ParseBool
\* ------------------------------------------------------------------------

BoolKeys == {"LikesGold", "IsTest", "Missing"}
BoolValues ==
  {GoBool(TRUE), GoBool(FALSE), GoString("true"), GoString("1"), GoString("TRUE"),
   GoString("yes"), GoString(" true"), GoString("1 "), GoString(""), GoString("false"),
   GoInt(0), GoInt(1), GoFloat64(1), Nil, GoSlice(<<GoBool(TRUE)>>)}

\* likesGold := p.Attributes.ParseBool(attrLikesGold)
CallParseBool ==
  /\ op = "init"
  /\ \E k \in BoolKeys :
       /\ key' = k
       /\ ret' = ParseBool(person.Attributes, k)
  /\ err' = NoErr
  /\ op' = "ParseBool"
  /\ UNCHANGED <<person, target, prior, data, flat, apiErr, msg>>
  /\ UNCHANGED clientVars

InitBool ==
  /\ person \in {[ZeroPerson EXCEPT !.Attributes = a] :
                   a \in MapsOfSize(BoolKeys \ {"Missing"}, BoolValues, MaxAttrs)}
  /\ target = ZeroPerson
  /\ prior = ZeroPerson
  /\ data = NoData
  /\ flat = EmptyMap
  /\ Unused
  /\ err = NoErr
  /\ op = "init"

NextBool == CallParseBool

SpecBool == InitBool /\ [][NextBool]_vars

\* the values the claim takes for true
Truthy == {GoBool(TRUE), GoString("true"), GoString("1")}

\* C8: ParseBool(key) is true exactly when the key is present with the bool
\* true, the string "true" or the string "1", and it leaves Attributes as
\* they were
C8_ParseBool ==
  [][op' = "ParseBool" =>
       /\ ret' = (key' \in DOMAIN person.Attributes /\ person.Attributes[key'] \in Truthy)
       /\ person'.Attributes = person.Attributes]_vars

\* ParseBool has answered false for the number 1
C8_Witness ==
  /\ op = "ParseBool" /\ ~ret
  /\ key \in DOMAIN person.Attributes /\ person.Attributes[key] = GoInt(1)

\* ------------------------------------------------------------------------
\* HasProfileIdentifier
\* ------------------------------------------------------------------------

IdentifierInputs == {"", " ", " \t\n", "kitty@monstercat.com", " +1234567890 "}

\* p.HasProfileIdentifier()
CallHasProfileIdentifier ==
  /\ op = "init"
  /\ ret' = HasProfileIdentifier(person)
  /\ err' = NoErr
  /\ op' = "HasProfileIdentifier"
  /\ UNCHANGED <<person, target, prior, data, flat, key, apiErr, msg>>
  /\ UNCHANGED clientVars

InitIdentifier ==
  /\ person \in {[p EXCEPT !.Email = e, !.PhoneNumber = n] :
                   p \in {ZeroPerson, FullPerson,
                          SetAttr(ZeroPerson, "email", GoString("kitty@monstercat.com")),
                          SetAttr(FullPerson, "$email", GoString("kitty@monstercat.com"))},
                   e \in IdentifierInputs, n \in IdentifierInputs}
  /\ target = ZeroPerson
  /\ prior = ZeroPerson
  /\ data = NoData
  /\ flat = EmptyMap
  /\ Unused
  /\ err = NoErr
  /\ op = "init"

NextIdentifier == CallHasProfileIdentifier

SpecIdentifier == InitIdentifier /\ [][NextIdentifier]_vars

\* a string that is empty or holds white space only
Blank(s) == \A i \in 1..Len(s) : SubSeq(s, i, i) \in {" ", "\t", "\n", "\r"}

\* C5: HasProfileIdentifier is false exactly when Email and PhoneNumber are
\* both blank, whatever the other fields and the attributes are
C5_IdentifierRequirement ==
  op = "HasProfileIdentifier" => (ret = ~(Blank(person.Email) /\ Blank(person.PhoneNumber)))

\* a Person with white space for Email, no PhoneNumber, and an identifier in
\* another field and in an attribute has been refused
C5_Witness ==
  /\ op = "HasProfileIdentifier" /\ ~ret
  /\ person.Email = " " /\ person.PhoneNumber = ""
  /\ person.FirstName # "" /\ "$email" \in DOMAIN person.Attributes

\* ------------------------------------------------------------------------
\* APIError.Error
\* ------------------------------------------------------------------------

ErrorTexts == {"", "not found", "bad request", "{}"}

\* err.Error()
CallError ==
  /\ op = "init"
  /\ msg' = Error(apiErr)
  /\ err' = NoErr
  /\ op' = "Error"
  /\ UNCHANGED <<person, target, prior, data, flat, key, ret, apiErr>>
  /\ UNCHANGED clientVars

InitError ==
  /\ person = ZeroPerson
  /\ target = ZeroPerson
  /\ prior = ZeroPerson
  /\ data = NoData
  /\ flat = EmptyMap
  /\ key = ""
  /\ ret = FALSE
  /\ apiErr \in {APIError(r, d, m) :
                   r \in ErrorTexts, d \in ErrorTexts, m \in ErrorTexts}
  /\ msg = ""
  /\ NoClient
  /\ err = NoErr
  /\ op = "init"

NextError == CallError

SpecError == InitError /\ [][NextError]_vars

\* C7: Error() is Message when Message is not empty, else Detail when Detail
\* is not empty, else Raw
C7_ErrorPrecedence ==
  op = "Error" =>
    /\ apiErr.Message # "" => msg = apiErr.Message
    /\ (apiErr.Message = "" /\ apiErr.Detail # "") => msg = apiErr.Detail
    /\ (apiErr.Message = "" /\ apiErr.Detail = "") => msg = apiErr.Raw

\* Error() has reported the Message of an APIError whose Detail and Raw differ from it
C7_Witness ==
  /\ op = "Error"
  /\ apiErr.Message # "" /\ apiErr.Detail # "" /\ apiErr.Raw # ""
  /\ apiErr.Detail # apiErr.Message /\ apiErr.Raw # apiErr.Message
  /\ msg = apiErr.Message

\* ------------------------------------------------------------------------
\* Calls of the Client
\* ------------------------------------------------------------------------

KeyInputs == {"", "key"}

ClientPersons ==
  {ZeroPerson,
   [ZeroPerson EXCEPT !.Email = " ", !.PhoneNumber = "\t"],
   [ZeroPerson EXCEPT !.PhoneNumber = "+1234567890"],
   SetAttr(FullPerson, "IsTest", GoBool(TRUE)),
   SetAttr([ZeroPerson EXCEPT !.Email = "kitty@monstercat.com"], "api_key", GoString("mine"))}

Statuses == {StatusOK, 404}
ContentTypes == {ContentJSON, ContentHTML, ContentHTMLUTF8, "text/plain"}

Message(x) == [k \in {"message"} |-> x]
Detail(x) == [k \in {"detail"} |-> x]

Bodies ==
  {Body("", Malformed),
   Body("1", ScalarDocument(JNumber(1))),
   Body("0", ScalarDocument(JNumber(0))),
   Body("\"1\"", ScalarDocument(JString("1"))),
   Body("\"0\"", ScalarDocument(JString("0"))),
   Body("null", NullDocument),
   Body("<html>Bad Gateway</html>", Malformed),
   Body("{}", Document(EmptyMap)),
   Body("{\"message\":\"not found\"}", Document(Message(JString("not found")))),
   Body("{\"detail\":\"no such list\"}", Document(Detail(JString("no such list")))),
   Body("{\"detail\":\"no such list\",\"message\":\"not found\"}",
        Document([k \in {"detail", "message"} |->
                    IF k = "detail" THEN JString("no such list") ELSE JString("not found")])),
   Body("{\"message\":404}", Document(Message(JNumber(404)))),
   Body("{\"$email\":\"kitty@monstercat.com\",\"LikesGold\":\"true\",\"id\":\"abc\"}",
        Document([k \in {"$email", "LikesGold", "id"} |->
                    CASE k = "$email" -> JString("kitty@monstercat.com")
                      [] k = "LikesGold" -> JString("true")
                      [] k = "id" -> JString("abc")])),
   Body("[{\"email\":\"kitty@monstercat.com\",\"id\":\"abc\"}]",
        ScalarDocument(JArray(<<JObject([k \in {"email", "id"} |->
                    IF k = "email" THEN JString("kitty@monstercat.com") ELSE JString("abc")])>>)))}

Replies ==
  {DoFails}
  \cup {ReadFails(st, ct) : st \in Statuses, ct \in ContentTypes}
  \cup {Response(st, ct, b) : st \in Statuses, ct \in ContentTypes, b \in Bodies}

EmailLists == {<<>>, <<"kitty@monstercat.com", "dev@monstercat.com">>}
PhoneLists == {<<>>, <<"+1234567890">>}
TokenLists == {<<>>, <<"token">>}

\* the variables a call of the Client writes, from what the call returned
Returned(name, a, rp, r) ==
  /\ op' = name
  /\ args' = a
  /\ err' = r.err
  /\ sent' = r.sent
  /\ reply' = IF r.sent = <<>> THEN NoReply ELSE rp
  /\ out' = r.out
  /\ UNCHANGED <<client, target, data, flat, key, ret, apiErr, msg>>

\* err := client.IdentifySafe(&p, omit); Identify is the call with omit = false
CallIdentify ==
  /\ op = "init"
  /\ \E omit \in BOOLEAN, rp \in Replies :
       Returned("Identify", [omit |-> omit], rp, IdentifySafe(client, person, omit, rp))
  /\ UNCHANGED <<person, prior>>

\* p, err := client.GetPerson(testPersonId)
CallGetPerson ==
  /\ op = "init"
  /\ \E rp \in Replies :
       Returned("GetPerson", [personId |-> "abc"], rp, GetPerson(client, "abc", rp))
  /\ UNCHANGED <<person, prior>>

\* err = client.UpdatePerson(p): p itself is the out argument
CallUpdatePerson ==
  /\ op = "init"
  /\ \E rp \in Replies :
       LET r == UpdatePerson(client, person, rp)
       IN /\ Returned("UpdatePerson", NoArgs, rp, r)
          /\ person' = r.out.person
  /\ prior' = person

\* res, err := client.Subscribe(testListId, emails, phoneNumbers)
CallSubscribe ==
  /\ op = "init"
  /\ \E es \in EmailLists, ns \in PhoneLists, rp \in Replies :
       Returned("Subscribe", [emails |-> es, phoneNumbers |-> ns], rp,
                Subscribe(client, "list", es, ns, rp))
  /\ UNCHANGED <<person, prior>>

\* err := client.Unsubscribe(testListId, emails, phoneNumbers, pushTokens)
CallUnsubscribe ==
  /\ op = "init"
  /\ \E es \in EmailLists, ns \in PhoneLists, ts \in TokenLists, rp \in Replies :
       Returned("Unsubscribe", [emails |-> es, phoneNumbers |-> ns, pushTokens |-> ts], rp,
                Unsubscribe(client, "list", es, ns, ts, rp))
  /\ UNCHANGED <<person, prior>>

\* xs, err := client.InList(testListId, emails, phoneNumbers, pushTokens)
CallInList ==
  /\ op = "init"
  /\ \E es \in EmailLists, ns \in PhoneLists, ts \in TokenLists, rp \in Replies :
       Returned("InList", [emails |-> es, phoneNumbers |-> ns, pushTokens |-> ts], rp,
                InList(client, "list", es, ns, ts, rp))
  /\ UNCHANGED <<person, prior>>

InitClient ==
  /\ person \in ClientPersons
  /\ target = ZeroPerson
  /\ prior = person
  /\ data = NoData
  /\ flat = EmptyMap
  /\ key = ""
  /\ ret = FALSE
  /\ apiErr = ZeroAPIError
  /\ msg = ""
  /\ client \in {[PublicKey |-> pub, PrivateKey |-> priv] : pub \in KeyInputs, priv \in KeyInputs}
  /\ args = NoArgs
  /\ sent = <<>>
  /\ reply = NoReply
  /\ out = NilOut
  /\ err = NoErr
  /\ op = "init"

NextClient ==
  \/ CallIdentify
  \/ CallGetPerson
  \/ CallUpdatePerson
  \/ CallSubscribe
  \/ CallUnsubscribe
  \/ CallInList

SpecClient == InitClient /\ [][NextClient]_vars

\* ------------------------------------------------------------------------
\* Properties of the Client
\* ------------------------------------------------------------------------

\* the out argument a call hands to doReq
OutBefore ==
  CASE op = "Identify" -> StringOut("")
    [] op = "GetPerson" -> PersonOut(ZeroPerson)
    [] op = "UpdatePerson" -> PersonOut(prior)
    [] op \in {"Subscribe", "InList"} -> ListOut(<<>>)
    [] op = "Unsubscribe" -> NilOut

NonOK == reply.kind = "response" /\ reply.status # 200

\* C6 as stated: a response whose status is not 200 makes the call return an
\* APIError whose Raw is the whole body, the body being the Message when the
\* content type is not JSON; the out argument is not written
C6_NonOKKeepsRaw ==
  NonOK =>
    /\ err.type = "*APIError"
    /\ err.Raw = reply.body.text
    /\ reply.ctype # "application/json" => err.Message = reply.body.text
    /\ out = OutBefore

\* the calls that reach doReq whatever their arguments are
AlwaysRequests == {"GetPerson", "UpdatePerson", "Subscribe", "Unsubscribe"}

NoList == Len(args.emails) = 0 /\ Len(args.phoneNumbers) = 0 /\ Len(args.pushTokens) = 0
NoIdentifier == Blank(person.Email) /\ Blank(person.PhoneNumber)

\* every request sent carries the private key as its last api_key parameter
KeyAppended ==
  \A i \in 1..Len(sent) :
    /\ "api_key" \in DOMAIN sent[i].url.query
    /\ sent[i].url.query["api_key"][Len(sent[i].url.query["api_key"])] = client.PrivateKey

\* C9 as stated: without a private key every call ends with ErrNoPrivateKey
\* and sends nothing; with one, every request sent carries it as api_key
C9_EveryCallNeedsPrivateKey ==
  op # "init" =>
    IF client.PrivateKey = ""
    THEN err = ErrNoPrivateKey /\ sent = <<>>
    ELSE KeyAppended

\* C9 amended: without a private key no call sends a request, and every call
\* that reaches the request pipeline ends with ErrNoPrivateKey: GetPerson,
\* UpdatePerson, Subscribe and Unsubscribe always, InList when one of its lists
\* is not empty, Identify when the public key is set and the Person has an
\* identifier; with a private key every request sent carries it as api_key
C9_PrivateKey ==
  op # "init" =>
    IF client.PrivateKey = ""
    THEN /\ sent = <<>>
         /\ op \in AlwaysRequests => err = ErrNoPrivateKey
         /\ (op = "InList" /\ ~NoList) => err = ErrNoPrivateKey
         /\ (op = "Identify" /\ client.PublicKey # "" /\ ~NoIdentifier) => err = ErrNoPrivateKey
    ELSE KeyAppended

\* Identify has been refused for the missing private key, nothing was sent
C9_Witness ==
  /\ op = "Identify"
  /\ client.PrivateKey = "" /\ client.PublicKey # ""
  /\ err = ErrNoPrivateKey /\ sent = <<>>

\* C10 as stated: Identify of a Person without identifier returns
\* ErrNoProfileIdentifier and sends nothing, for either value of omit
C10_NoIdentifier ==
  (op = "Identify" /\ NoIdentifier) => (err = ErrNoProfileIdentifier /\ sent = <<>>)

\* C10 amended: Identify of a Person without identifier sends nothing, and
\* returns ErrNoProfileIdentifier when the client's public key is set, for
\* either value of omit
C10_NoIdentifierWithPublicKey ==
  (op = "Identify" /\ NoIdentifier) =>
    /\ sent = <<>>
    /\ client.PublicKey # "" => err = ErrNoProfileIdentifier

\* IdentifySafe with omit set has refused a Person whose Email and PhoneNumber
\* are white space, on a client with both keys
C10_Witness ==
  /\ op = "Identify" /\ args.omit
  /\ person.Email = " " /\ person.PhoneNumber = "\t"
  /\ client.PublicKey # "" /\ client.PrivateKey # ""
  /\ err = ErrNoProfileIdentifier /\ sent = <<>>

\* doReq hands a body back to Identify: the response has status 200 and, when
\* its content type is JSON, its body is a JSON string or null
HandedBack ==
  /\ reply.kind = "response"
  /\ reply.status = 200
  /\ reply.ctype = "application/json" =>
       \/ reply.body.doc.kind = "null"
       \/ reply.body.doc.kind = "scalar" /\ reply.body.doc.val.j = "string"

\* C11: Identify returns ErrFailed exactly when the exchange ended with status
\* 200 and the string the pipeline handed back is not "1"; it returns nil only
\* when that string is "1"; a transport failure, a read failure or a status
\* that is not 200 never gives ErrFailed
C11_ErrFailed ==
  op = "Identify" =>
    /\ err = ErrFailed => (Len(sent) = 1 /\ HandedBack /\ out.str # "1")
    /\ err = NoErr => (Len(sent) = 1 /\ HandedBack /\ out.str = "1")
    /\ HandedBack => err = IF out.str = "1" THEN NoErr ELSE ErrFailed
    /\ (reply.kind \in {"fail", "readfail"} \/ NonOK) => err \notin {ErrFailed, NoErr}

\* Identify got status 200 and the HTML body "0", and returned ErrFailed
C11_Witness ==
  /\ op = "Identify"
  /\ reply.kind = "response" /\ reply.status = 200
  /\ reply.ctype = "text/html" /\ reply.body.text = "0"
  /\ out.str = "0"
  /\ err = ErrFailed

\* the query parameter of each list argument of InList
ListParams == {"emails", "phone_numbers", "push_tokens"}

ListArg(k) ==
  CASE k = "emails" -> args.emails
    [] k = "phone_numbers" -> args.phoneNumbers
    [] k = "push_tokens" -> args.pushTokens

NonEmptyLists == {k \in ListParams : Len(ListArg(k)) > 0}

\* one request was sent, and of the three lists its query carries the
\* non-empty ones, each once, joined by commas
OneRequestOfLists ==
  /\ Len(sent) = 1
  /\ DOMAIN sent[1].url.query \cap ListParams = NonEmptyLists
  /\ \A k \in NonEmptyLists : sent[1].url.query[k] = <<Join(ListArg(k), ",")>>

\* C12 as stated: InList with three empty lists returns an empty result and no
\* error and sends nothing; with a non-empty list it performs exactly one
\* request whose query carries only the non-empty lists
C12_InList ==
  op = "InList" =>
    IF NoList
    THEN err = NoErr /\ out = ListOut(<<>>) /\ sent = <<>>
    ELSE OneRequestOfLists

\* C12 amended: InList with three empty lists returns an empty result and no
\* error and sends nothing; with a non-empty list and a private key it
\* performs exactly one request whose query carries api_key and only the
\* non-empty lists; with a non-empty list and no private key it sends nothing
\* and returns ErrNoPrivateKey
C12_InListWithPrivateKey ==
  op = "InList" =>
    IF NoList
    THEN err = NoErr /\ out = ListOut(<<>>) /\ sent = <<>>
    ELSE IF client.PrivateKey = ""
    THEN err = ErrNoPrivateKey /\ out = ListOut(<<>>) /\ sent = <<>>
    ELSE /\ OneRequestOfLists
         /\ DOMAIN sent[1].url.query = NonEmptyLists \cup {"api_key"}

\* InList was called with emails and push tokens but no phone numbers, and
\* sent one request carrying those two lists
C12_Witness ==
  /\ op = "InList"
  /\ Len(args.emails) = 2 /\ Len(args.phoneNumbers) = 0 /\ Len(args.pushTokens) = 1
  /\ Len(sent) = 1
  /\ DOMAIN sent[1].url.query = {"emails", "push_tokens", "api_key"}
  /\ sent[1].url.query["emails"] = <<"kitty@monstercat.com,dev@monstercat.com">>

\* ------------------------------------------------------------------------
\* Failures of UnmarshalJSON
\* ------------------------------------------------------------------------

\* the payload is a JSON object: a well-formed flat mapping
FlatMapping == data.kind = "object"

\* a JSON value of the wrong type for the reserved field called name: for
\* Consent anything but null or an array of strings and nulls, for the other
\* fields anything but null or a string
WrongType(name, v) ==
  IF name = "Consent"
  THEN /\ v.j # "null"
       /\ v.j = "array" => \E i \in 1..Len(v.elems) : v.elems[i].j \notin {"string", "null"}
  ELSE v.j \notin {"string", "null"}

\* a reserved key of the payload carries a value of the wrong type
ReservedMistyped ==
  /\ FlatMapping
  /\ \/ \E i \in 1..Len(Reserved) :
          /\ Reserved[i][1] \in DOMAIN data.obj
          /\ WrongType(Reserved[i][2], data.obj[Reserved[i][1]])
     \/ \E k \in {"id", "object"} \cap DOMAIN data.obj : WrongType("Id", data.obj[k])

\* C13: UnmarshalJSON returns an error when the payload is not a well-formed
\* flat mapping or when a reserved key carries a value of the wrong type, and
\* every call that returns an error leaves the target Person as it was
C13_DecodeErrorKeepsTarget ==
  op = "UnmarshalJSON" =>
    /\ (~FlatMapping \/ ReservedMistyped) => err # NoErr
    /\ err # NoErr => target = prior

====
